---------------------------- MODULE Spec2Model ----------------------------
(***************************************************************************)
(* A model of the caddy-tftp app (src/internal/tftp.go, lines 1-253: the   *)
(* revision with safePath and access logging).                             *)
(*                                                                         *)
(*   SpecPath  the path sanitizer safePath as a pure function              *)
(*   Spec      the read and write handlers over a filesystem               *)
(*   SpecLife  the supervisor: Provision, Start, the serving tasks, Stop   *)
(*                                                                         *)
(* A string is a sequence of one-character strings, so that               *)
(* strings.HasPrefix, filepath.Join and filepath.Clean are computed on     *)
(* characters as the Go library computes them.                             *)
(***************************************************************************)
EXTENDS Integers, Sequences, FiniteSets, TLC

\* ------------------------------------------------------------ bounds
\* longest client filename enumerated by SpecPath
MaxNameLen == 5
\* handler invocations in one behaviour of Spec
MaxTransfers == 2
\* longest upload body
MaxData == 2

\* ------------------------------------------------------------ strings
Chars == {"/", ".", "t", "x"}

RECURSIVE StringsOfLen(_)
StringsOfLen(n) ==
  IF n = 0 THEN {<<>>}
  ELSE {Append(s, c) : s \in StringsOfLen(n - 1), c \in Chars}

StringsUpTo(n) == UNION {StringsOfLen(k) : k \in 0..n}

\* strings.HasPrefix(s, prefix)
HasPrefix(s, prefix) ==
  /\ Len(s) >= Len(prefix)
  /\ SubSeq(s, 1, Len(prefix)) = prefix

\* the elements of a path between its separators, empty elements included
RECURSIVE Split(_)
Split(s) ==
  IF \A i \in 1..Len(s) : s[i] # "/" THEN <<s>>
  ELSE LET k == CHOOSE i \in 1..Len(s) :
                  s[i] = "/" /\ \A j \in 1..(i - 1) : s[j] # "/"
       IN <<SubSeq(s, 1, k - 1)>> \o Split(SubSeq(s, k + 1, Len(s)))

RECURSIVE JoinSegs(_)
JoinSegs(segs) ==
  IF Len(segs) = 0 THEN <<>>
  ELSE IF Len(segs) = 1 THEN segs[1]
  ELSE segs[1] \o <<"/">> \o JoinSegs(Tail(segs))

IsAbs(p) == Len(p) > 0 /\ p[1] = "/"

DotDot == <<".", ".">>
Dot == <<".">>

\* filepath.Clean's walk over the elements: out is the stack of kept elements
RECURSIVE CleanSegs(_, _, _)
CleanSegs(segs, out, rooted) ==
  IF Len(segs) = 0 THEN out
  ELSE LET e == Head(segs)
           rest == Tail(segs)
       IN IF e = <<>> \/ e = Dot THEN CleanSegs(rest, out, rooted)
          ELSE IF e = DotDot THEN
            IF Len(out) > 0 /\ out[Len(out)] # DotDot
              THEN CleanSegs(rest, SubSeq(out, 1, Len(out) - 1), rooted)
            ELSE IF rooted THEN CleanSegs(rest, out, rooted)
            ELSE CleanSegs(rest, Append(out, e), rooted)
          ELSE CleanSegs(rest, Append(out, e), rooted)

\* filepath.Clean(path)
Clean(p) ==
  IF Len(p) = 0 THEN Dot
  ELSE LET rooted == IsAbs(p)
           kept == CleanSegs(Split(p), <<>>, rooted)
       IN IF rooted THEN <<"/">> \o JoinSegs(kept)
          ELSE IF Len(kept) = 0 THEN Dot ELSE JoinSegs(kept)

\* a join that lets an absolute second element replace the first
JoinAbsolute(a, b) ==
  IF IsAbs(b) THEN Clean(b)
  ELSE IF Len(a) = 0 /\ Len(b) = 0 THEN <<>>
  ELSE IF Len(a) = 0 THEN Clean(b)
  ELSE IF Len(b) = 0 THEN Clean(a)
  ELSE Clean(a \o <<"/">> \o b)

\* filepath.Join(a, b): empty elements are ignored, the result is cleaned
Join(a, b) ==
  IF Len(a) = 0 /\ Len(b) = 0 THEN <<>>
  ELSE IF Len(a) = 0 THEN Clean(b)
  ELSE IF Len(b) = 0 THEN Clean(a)
  ELSE Clean(a \o <<"/">> \o b)

\* os.Getwd failed
NoDir == <<"?">>

\* filepath.Abs(p) in working directory wd: [path, err]
Abs(p, wd) ==
  IF IsAbs(p) THEN [path |-> Clean(p), err |-> FALSE]
  ELSE IF wd = NoDir THEN [path |-> <<>>, err |-> TRUE]
  ELSE [path |-> Join(wd, p), err |-> FALSE]

\* the process working directory of the model
Getwd == <<"/", "t">>

\* ------------------------------------------------------------ safePath
\* a sanitizer that accepts every joined path (no prefix check)
SafePathNoCheck(root, filename) ==
  [path |-> Abs(Join(root, filename), Getwd).path, err |-> FALSE]

\* tftpServer.safePath: [path, err]
SafePath(root, filename) ==
  LET p == Join(root, filename)
      c == Abs(p, Getwd)
  IN IF c.err \/ ~HasPrefix(c.path, root)
       THEN [path |-> c.path, err |-> TRUE]
       ELSE [path |-> c.path, err |-> FALSE]

\* ------------------------------------------------------------ configuration
\* caddy.ParseNetworkAddressWithDefaults(listen, "udp", 69) of a configured
\* listen value [net, start, end]: net "" and start 0 stand for "not given",
\* net "bad" for a value that does not parse
DefaultPort == 69

ParseNetworkAddressWithDefaults(listen) ==
  IF listen.net = "bad" THEN [err |-> TRUE, addr |-> [Network |-> "", StartPort |-> 0, EndPort |-> 0]]
  ELSE [err |-> FALSE,
        addr |-> [Network |-> IF listen.net = "" THEN "udp" ELSE listen.net,
                  StartPort |-> IF listen.start = 0 THEN DefaultPort ELSE listen.start,
                  EndPort |-> IF listen.start = 0 THEN DefaultPort ELSE listen.end]]

NoLogger == "nil"

\* TFTP.Provision, lines 89-96: the access logger of a new instance
AccessLogger(name, srv) == "access"

\* TFTP.Provision, the body of the loop for one configured server:
\* [err, server]
ProvisionServer(name, srv, wd) ==
  LET root == Abs(srv.root, wd)
      parsed == ParseNetworkAddressWithDefaults(srv.listen)
      s == [name |-> name, root |-> root.path, addr |-> parsed.addr,
            log |-> name, accessLog |-> AccessLogger(name, srv)]
  IN IF root.err THEN [err |-> "abs", server |-> s]
     ELSE IF parsed.err THEN [err |-> "parse", server |-> s]
     ELSE IF parsed.addr.Network # "udp" THEN [err |-> "network", server |-> s]
     ELSE [err |-> "nil", server |-> s]

\* TFTP.Provision over the configured servers taken in the order `order`
\* (Go ranges over the map in an unspecified order): the loop stops at the
\* first error and keeps what it appended before it. [err, servers]
RECURSIVE ProvisionLoop(_, _, _, _)
ProvisionLoop(cfg, order, wd, acc) ==
  IF Len(order) = 0 THEN [err |-> "nil", servers |-> acc]
  ELSE LET r == ProvisionServer(Head(order), cfg[Head(order)], wd)
       IN IF r.err # "nil" THEN [err |-> r.err, servers |-> acc]
          ELSE ProvisionLoop(cfg, Tail(order), wd, Append(acc, r.server))

\* the orders in which a range over the map cfg can visit its keys
Orders(cfg) ==
  {o \in [1..Cardinality(DOMAIN cfg) -> DOMAIN cfg] :
      \A i, j \in DOMAIN o : i # j => o[i] # o[j]}

\* ------------------------------------------------------------ filesystem
\* files maps the path of each regular file to its content. The directories
\* /t and /tx exist and hold every path the modelled filenames resolve to.

\* os.Open(p): the error, "nil" when the file opens
OsOpen(fs, p) == IF p \in DOMAIN fs THEN "nil" ELSE "ENOENT"

\* a create that truncates an existing file instead of failing (no O_EXCL)
OsCreateTrunc(fs, p) ==
  [err |-> "nil",
   files |-> [q \in (DOMAIN fs) \cup {p} |-> IF q = p THEN <<>> ELSE fs[q]]]

\* a create that opens an existing file as it is (O_CREATE without O_EXCL)
OsCreateKeep(fs, p) ==
  [err |-> "nil",
   files |-> [q \in (DOMAIN fs) \cup {p} |-> IF q \in DOMAIN fs THEN fs[q] ELSE <<>>]]

\* os.OpenFile(p, O_WRONLY|O_CREATE|O_EXCL, 0644): [err, files]
OsCreateExcl(fs, p) ==
  IF p \in DOMAIN fs THEN [err |-> "EEXIST", files |-> fs]
  ELSE [err |-> "nil",
        files |-> [q \in (DOMAIN fs) \cup {p} |-> IF q = p THEN <<>> ELSE fs[q]]]

\* ------------------------------------------------------------ state
VARIABLES
  spRoot, spName, spResult,    \* SpecPath: one safePath call and its result
  servers,                     \* app.servers: the provisioned instances
  files,                       \* the filesystem: path -> content of each file
  xfers,                       \* the handler invocations, in order of arrival
  cfg,                         \* app.Servers: the configured servers by name
  provisioned,                 \* Provision: "no" (not called), "ok", "error"
  startPc, startErr, loopIdx,  \* Start: its place, its result, its loop index
  listeners,                   \* the listeners Start has bound, in order
  tasks, groupErr,             \* errGroup: the serving tasks, the first error
  transport,                   \* per instance, its transport server's state
  inflight, handled,           \* transfers in flight per instance; routing seen
  stopPc, stopIdx, stopErr     \* Stop: its place, its loop index, its result

pathVars == <<spRoot, spName, spResult>>
xferVars == <<files, xfers>>
lifeVars == <<cfg, provisioned, startPc, startErr, loopIdx, listeners, tasks,
              groupErr, transport, inflight, handled, stopPc, stopIdx, stopErr>>
vars == <<pathVars, servers, xferVars, lifeVars>>

None == [path |-> <<>>, err |-> FALSE, called |-> FALSE]

\* resolved roots: filepath.Abs of a configured root
Roots == {<<"/", "t">>, <<"/", "t", "x">>, <<"/">>}

PathParked ==
  /\ spRoot = <<"/">>
  /\ spName = <<>>
  /\ spResult = None

XferParked ==
  /\ files = <<>>
  /\ xfers = <<>>

\* a nil error; a task's error names the task
NilErr == [task |-> 0]

\* the supervisor before Provision
LifeIdle ==
  /\ provisioned = "no"
  /\ startPc = "idle" /\ startErr = "nil" /\ loopIdx = 0
  /\ listeners = <<>>
  /\ tasks = <<>> /\ groupErr = NilErr
  /\ transport = <<>>
  /\ inflight = <<>> /\ handled = <<>>
  /\ stopPc = "idle" /\ stopIdx = 0 /\ stopErr = NilErr

\* the supervisor once Start has returned and every task serves its instance
LifeServing(srvs) ==
  /\ provisioned = "ok"
  /\ startPc = "returned" /\ startErr = "nil" /\ loopIdx = Len(srvs)
  /\ listeners = [i \in 1..Len(srvs) |-> [port |-> srvs[i].addr.StartPort, owner |-> i]]
  /\ tasks = [i \in 1..Len(srvs) |->
                [iter |-> i, ln |-> i, state |-> "serving", srv |-> i, err |-> NilErr,
                 rank |-> 0]]
  /\ groupErr = NilErr
  /\ transport = [i \in 1..Len(srvs) |-> [conn |-> i, shut |-> FALSE]]
  /\ inflight = [i \in 1..Len(srvs) |-> 0] /\ handled = <<>>
  /\ stopPc = "idle" /\ stopIdx = 0 /\ stopErr = NilErr

PathInit ==
  /\ spRoot \in Roots
  /\ spName \in StringsUpTo(MaxNameLen)
  /\ spResult = None
  /\ servers = <<>>
  /\ XferParked
  /\ cfg = <<>>
  /\ LifeIdle

CallSafePath ==
  /\ ~spResult.called
  /\ spResult' = [path |-> SafePath(spRoot, spName).path,
                  err |-> SafePath(spRoot, spName).err,
                  called |-> TRUE]
  /\ UNCHANGED <<spRoot, spName, servers, xferVars, lifeVars>>

PathNext == CallSafePath

SpecPath == PathInit /\ [][PathNext]_vars

\* ------------------------------------------------------------ handlers
\* the configuration Spec serves: "a" has no root (the working directory,
\* /t) and access logging enabled, "b" serves /tx with logging left disabled
XferConfig ==
  [a |-> [listen |-> [net |-> "", start |-> 0, end |-> 0],
          root |-> <<>>, logs |-> TRUE],
   b |-> [listen |-> [net |-> "udp", start |-> 70, end |-> 70],
          root |-> <<"/", "t", "x">>, logs |-> FALSE]]

\* the filenames clients ask for: x, ../tx/x and ../x
FileNames ==
  {<<"x">>, <<".", ".", "/", "t", "x", "/", "x">>, <<".", ".", "/", "x">>}

\* what the client of invocation i uploads: k bytes, each naming the
\* invocation and its place in the body, so that a file's content tells
\* which upload wrote it
Body(i, k) == [j \in 1..k |-> 10 * i + j]

\* the file the filesystem holds before any transfer: /tx/x, in the root of
\* "b"; the root of "a" is empty
BootFile == <<"/", "t", "x", "/", "x">>

XferInit ==
  /\ PathParked
  /\ servers = ProvisionLoop(XferConfig, <<"a", "b">>, Getwd, <<>>).servers
  /\ files = [q \in {BootFile} |-> <<1, 2>>]
  /\ xfers = <<>>
  /\ cfg = XferConfig
  /\ LifeServing(ProvisionLoop(XferConfig, <<"a", "b">>, Getwd, <<>>).servers)

\* readHandler and writeHandler, lines 148 and 192: the access-log record is
\* deferred when the instance has an access logger
Deferred(s) == s.accessLog # NoLogger

\* a deferred function that reports every transfer as a download
AccessRecordGet(t) ==
  [log |-> "access", method |-> "GET", uri |-> t.filename, bytes |-> t.n]

\* the deferred function, lines 156-168 and 200-212
AccessRecord(t) ==
  [log |-> "access", method |-> IF t.kind = "read" THEN "GET" ELSE "PUT",
   uri |-> t.filename, bytes |-> t.n]

\* s.log.Error(err.Error(), zap.String("filename", filename))
ErrorRecord(t, err) == [log |-> "error", msg |-> err, filename |-> t.filename]

\* a return that hands the error to the transport without logging it
ReturnNoErrorLog(t, err) ==
  LET u == [t EXCEPT !.err = err, !.pc = "done"]
  IN [u EXCEPT !.events =
        t.events \o (IF t.deferred THEN <<AccessRecord(u)>> ELSE <<>>)
                 \o <<[log |-> "return", err |-> err]>>]

\* a handler's return with error err ("nil": none): the error is logged,
\* then the deferred access record is emitted, then the handler has returned
Return(t, err) ==
  LET u == [t EXCEPT !.err = err, !.pc = "done"]
  IN [u EXCEPT !.events =
        t.events \o (IF err # "nil" THEN <<ErrorRecord(t, err)>> ELSE <<>>)
                 \o (IF t.deferred THEN <<AccessRecord(u)>> ELSE <<>>)
                 \o <<[log |-> "return", err |-> err]>>]

\* `n, err := rf.ReadFrom(file)`: a count that shadows the handler's n
StreamedShadowed(t) == t

\* `n, err = rf.ReadFrom(file)` / `n, err = wt.WriteTo(file)`, lines 181
\* and 225: the stream's count is assigned to the handler's n
Streamed(t) == [t EXCEPT !.n = t.moved]

\* a handler that goes on to the filesystem with the path safePath returned
\* although safePath rejected the filename
InvokeIgnoreReject(kind, srv, filename, data) ==
  /\ Len(xfers) < MaxTransfers
  /\ LET t == [kind |-> kind, srv |-> srv, filename |-> filename, data |-> data,
               pc |-> "open", deferred |-> Deferred(servers[srv]),
               p |-> <<>>, n |-> 0, moved |-> 0, sent |-> <<>>, err |-> "nil",
               prior |-> {k \in 1..Len(xfers) : xfers[k].pc = "done"},
               events |-> <<>>]
         r == SafePath(servers[srv].root, filename)
         u == [t EXCEPT !.events = <<[log |-> "safePath", path |-> r.path]>>]
     IN xfers' = Append(xfers, [u EXCEPT !.p = r.path])
  /\ UNCHANGED <<pathVars, servers, files, lifeVars>>

\* the transport layer calls readHandler or writeHandler of instance srv
\* with a client's filename; data is what the client uploads, and prior
\* remembers the invocations that had returned by then. The handler
\* runs to its first filesystem call: the deferred record is registered
\* (lines 147-169, 191-213) and safePath is evaluated (lines 171-175,
\* 215-219), and a rejected filename is logged and returned
Invoke(kind, srv, filename, data) ==
  /\ Len(xfers) < MaxTransfers
  /\ LET t == [kind |-> kind, srv |-> srv, filename |-> filename, data |-> data,
               pc |-> "open", deferred |-> Deferred(servers[srv]),
               p |-> <<>>, n |-> 0, moved |-> 0, sent |-> <<>>, err |-> "nil",
               prior |-> {k \in 1..Len(xfers) : xfers[k].pc = "done"},
               events |-> <<>>]
         r == SafePath(servers[srv].root, filename)
         u == [t EXCEPT !.events = <<[log |-> "safePath", path |-> r.path]>>]
     IN xfers' = Append(xfers,
          IF r.err THEN Return(u, "unsafe") ELSE [u EXCEPT !.p = r.path])
  /\ UNCHANGED <<pathVars, servers, files, lifeVars>>

\* lines 176-180: os.Open
OpenStep(i) ==
  /\ xfers[i].pc = "open" /\ xfers[i].kind = "read"
  /\ LET t == xfers[i]
         e == OsOpen(files, t.p)
         u == [t EXCEPT !.events = Append(t.events, [log |-> "open", path |-> t.p])]
     IN xfers' = [xfers EXCEPT ![i] =
          IF e # "nil" THEN Return(u, e) ELSE [u EXCEPT !.pc = "stream"]]
  /\ UNCHANGED <<pathVars, servers, files, lifeVars>>

\* lines 220-224: os.OpenFile with O_CREATE|O_EXCL
CreateStep(i) ==
  /\ xfers[i].pc = "open" /\ xfers[i].kind = "write"
  /\ LET t == xfers[i]
         r == OsCreateExcl(files, t.p)
         u == [t EXCEPT !.events = Append(t.events, [log |-> "create", path |-> t.p])]
     IN /\ xfers' = [xfers EXCEPT ![i] =
             IF r.err # "nil" THEN Return(u, r.err) ELSE [u EXCEPT !.pc = "stream"]]
        /\ files' = r.files
  /\ UNCHANGED <<pathVars, servers, lifeVars>>

\* rf.ReadFrom(file), line 181: the transport reads the next byte of the file
\* and sends it to the client
ReadByte(i) ==
  /\ xfers[i].pc = "stream" /\ xfers[i].kind = "read"
  /\ xfers[i].moved < Len(files[xfers[i].p])
  /\ xfers' = [xfers EXCEPT ![i].moved = @ + 1,
                            ![i].sent = Append(@, files[xfers[i].p][xfers[i].moved + 1])]
  /\ UNCHANGED <<pathVars, servers, files, lifeVars>>

\* rf.ReadFrom returns at the end of the file, lines 181-186
ReadEnd(i) ==
  /\ xfers[i].pc = "stream" /\ xfers[i].kind = "read"
  /\ xfers[i].moved = Len(files[xfers[i].p])
  /\ xfers' = [xfers EXCEPT ![i] = Return(Streamed(xfers[i]), "nil")]
  /\ UNCHANGED <<pathVars, servers, files, lifeVars>>

\* wt.WriteTo(file), line 225: the transport writes the next received byte
WriteByte(i) ==
  /\ xfers[i].pc = "stream" /\ xfers[i].kind = "write"
  /\ xfers[i].moved < Len(xfers[i].data)
  /\ files' = [files EXCEPT ![xfers[i].p] = Append(@, xfers[i].data[xfers[i].moved + 1])]
  /\ xfers' = [xfers EXCEPT ![i].moved = @ + 1]
  /\ UNCHANGED <<pathVars, servers, lifeVars>>

\* wt.WriteTo returns after the last byte, lines 225-230
WriteEnd(i) ==
  /\ xfers[i].pc = "stream" /\ xfers[i].kind = "write"
  /\ xfers[i].moved = Len(xfers[i].data)
  /\ xfers' = [xfers EXCEPT ![i] = Return(Streamed(xfers[i]), "nil")]
  /\ UNCHANGED <<pathVars, servers, files, lifeVars>>

\* a failing stream after which the write handler removes the file it created
StreamFailRemoves(i) ==
  /\ xfers[i].pc = "stream"
  /\ xfers' = [xfers EXCEPT ![i] = Return(Streamed(xfers[i]), "io")]
  /\ files' = IF xfers[i].kind = "write"
                THEN [q \in (DOMAIN files) \ {xfers[i].p} |-> files[q]]
                ELSE files
  /\ UNCHANGED <<pathVars, servers, lifeVars>>

\* the stream fails (a timeout, the client gone): ReadFrom or WriteTo returns
\* the bytes moved so far and an error, lines 182-185 and 226-229
StreamFail(i) ==
  /\ xfers[i].pc = "stream"
  /\ xfers' = [xfers EXCEPT ![i] = Return(Streamed(xfers[i]), "io")]
  /\ UNCHANGED <<pathVars, servers, files, lifeVars>>

XferNext ==
  \/ \E srv \in 1..Len(servers), f \in FileNames : Invoke("read", srv, f, <<>>)
  \/ \E srv \in 1..Len(servers), f \in FileNames, k \in 0..MaxData :
        Invoke("write", srv, f, Body(Len(xfers) + 1, k))
  \/ \E i \in 1..Len(xfers) : OpenStep(i)
  \/ \E i \in 1..Len(xfers) : CreateStep(i)
  \/ \E i \in 1..Len(xfers) : ReadByte(i)
  \/ \E i \in 1..Len(xfers) : ReadEnd(i)
  \/ \E i \in 1..Len(xfers) : WriteByte(i)
  \/ \E i \in 1..Len(xfers) : WriteEnd(i)
  \/ \E i \in 1..Len(xfers) : StreamFail(i)

Spec == XferInit /\ [][XferNext]_vars

\* ------------------------------------------------------------ supervisor
\* requests accepted in one behaviour of SpecLife
MaxAccepted == 2

\* the listen values a server is configured with: none (udp port 69 by
\* default), :70, the port range :70-71, a tcp address, an unparsable value
ListenValues ==
  {[net |-> "", start |-> 0, end |-> 0],
   [net |-> "udp", start |-> 70, end |-> 70],
   [net |-> "udp", start |-> 70, end |-> 71],
   [net |-> "tcp", start |-> 70, end |-> 70],
   [net |-> "bad", start |-> 0, end |-> 0]}

\* the configurations: servers "a" and "b" with distinct roots (the working
\* directory /t, and /tx) and any listen values
Configs ==
  {[a |-> [listen |-> la, root |-> <<>>, logs |-> TRUE],
    b |-> [listen |-> lb, root |-> <<"/", "t", "x">>, logs |-> FALSE]] :
     la \in ListenValues, lb \in ListenValues}

LifeInit ==
  /\ PathParked
  /\ XferParked
  /\ servers = <<>>
  /\ cfg \in Configs
  /\ LifeIdle

\* TFTP.Provision, lines 73-104. wd is what os.Getwd gives (it may fail)
Provision ==
  /\ provisioned = "no"
  /\ \E order \in Orders(cfg), wd \in {Getwd, NoDir} :
       LET r == ProvisionLoop(cfg, order, wd, <<>>)
       IN /\ servers' = r.servers
          /\ provisioned' = IF r.err = "nil" THEN "ok" ELSE "error"
          /\ transport' = [j \in 1..Len(r.servers) |-> [conn |-> 0, shut |-> FALSE]]
          /\ inflight' = [j \in 1..Len(r.servers) |-> 0]
  /\ UNCHANGED <<pathVars, xferVars, cfg, startPc, startErr, loopIdx, listeners,
                 tasks, groupErr, handled, stopPc, stopIdx, stopErr>>

\* TFTP.Start, line 108: the host calls Start after a successful Provision
StartCall ==
  /\ provisioned = "ok" /\ startPc = "idle"
  /\ startPc' = "loop"
  /\ groupErr' = NilErr
  /\ UNCHANGED <<pathVars, servers, xferVars, cfg, provisioned, startErr, loopIdx,
                 listeners, tasks, transport, inflight, handled, stopPc,
                 stopIdx, stopErr>>

\* s.addr.Listen(app.ctx, 0, net.ListenConfig{}), line 110: the port bound is
\* the address's first port plus the offset 0
ListenPort(addr) == addr.StartPort + 0

\* app.errGroup.Go(func), line 118: a task is launched for the iteration's
\* listener
Go(ts, i, ln) ==
  Append(ts, [iter |-> i, ln |-> ln, state |-> "launched", srv |-> 0, err |-> NilErr,
              rank |-> 0])

\* a Start that shuts down the instances it has started when it fails
StartIterCleansUp ==
  /\ startPc = "loop" /\ loopIdx < Len(servers)
  /\ loopIdx' = loopIdx + 1
  /\ \E outcome \in {"ok", "listen", "notpacket"} :
       IF outcome = "ok"
         THEN /\ listeners' = Append(listeners,
                    [port |-> ListenPort(servers[loopIdx + 1].addr),
                     owner |-> loopIdx + 1])
              /\ tasks' = Go(tasks, loopIdx + 1, Len(listeners) + 1)
              /\ UNCHANGED <<startPc, startErr, transport>>
         ELSE /\ startPc' = "returned"
              /\ startErr' = outcome
              /\ transport' = [j \in 1..Len(transport) |->
                     IF j <= loopIdx THEN [transport[j] EXCEPT !.shut = TRUE]
                     ELSE transport[j]]
              /\ UNCHANGED <<listeners, tasks>>
  /\ UNCHANGED <<pathVars, servers, xferVars, cfg, provisioned, groupErr,
                 inflight, handled, stopPc, stopIdx, stopErr>>

\* a loop that passes over an instance it cannot listen for and goes on
StartIterContinue ==
  /\ startPc = "loop" /\ loopIdx < Len(servers)
  /\ loopIdx' = loopIdx + 1
  /\ \E outcome \in {"ok", "listen", "notpacket"} :
       IF outcome = "ok"
         THEN /\ listeners' = Append(listeners,
                    [port |-> ListenPort(servers[loopIdx + 1].addr),
                     owner |-> loopIdx + 1])
              /\ tasks' = Go(tasks, loopIdx + 1, Len(listeners) + 1)
              /\ UNCHANGED <<startPc, startErr>>
         ELSE /\ startErr' = outcome
              /\ UNCHANGED <<startPc, listeners, tasks>>
  /\ UNCHANGED <<pathVars, servers, xferVars, cfg, provisioned, groupErr,
                 transport, inflight, handled, stopPc, stopIdx, stopErr>>

\* TFTP.Start, lines 109-127: one iteration of the loop over app.servers.
\* Listen succeeds with a packet listener, succeeds with another kind of
\* listener, or fails; in the last two cases Start returns an error.
\* listeners holds the packet listeners: one of another kind is served by
\* no task
StartIter ==
  /\ startPc = "loop" /\ loopIdx < Len(servers)
  /\ loopIdx' = loopIdx + 1
  /\ \E outcome \in {"ok", "listen", "notpacket"} :
       IF outcome = "ok"
         THEN /\ listeners' = Append(listeners,
                    [port |-> ListenPort(servers[loopIdx + 1].addr),
                     owner |-> loopIdx + 1])
              /\ tasks' = Go(tasks, loopIdx + 1, Len(listeners) + 1)
              /\ UNCHANGED <<startPc, startErr>>
         ELSE /\ startPc' = "returned"
              /\ startErr' = outcome
              /\ UNCHANGED <<listeners, tasks>>
  /\ UNCHANGED <<pathVars, servers, xferVars, cfg, provisioned, groupErr,
                 transport, inflight, handled, stopPc, stopIdx, stopErr>>

\* TFTP.Start, line 128
StartReturn ==
  /\ startPc = "loop" /\ loopIdx = Len(servers)
  /\ startPc' = "returned"
  /\ UNCHANGED <<pathVars, servers, xferVars, cfg, provisioned, startErr, loopIdx,
                 listeners, tasks, groupErr, transport, inflight, handled,
                 stopPc, stopIdx, stopErr>>

\* the instance the task's closure finds in the loop variable s when it
\* runs, lines 118-126. The closure refers to the loop variable of
\* `for _, s := range app.servers`; where the loop has one variable for all
\* iterations (Go before 1.22) the task's read races with the loop's next
\* assignment and finds the instance of its own iteration or the one the loop
\* has reached since
ClosureS(t) == {t.iter, loopIdx}

\* the task starts to run, lines 119-125: it logs "server running" and calls
\* s.Serve(l) with the listener of its own iteration
TaskServe(k) ==
  /\ tasks[k].state = "launched"
  /\ \E j \in ClosureS(tasks[k]) :
       /\ tasks' = [tasks EXCEPT ![k].state = "serving", ![k].srv = j]
       /\ transport' = [transport EXCEPT ![j].conn = tasks[k].ln]
  /\ UNCHANGED <<pathVars, servers, xferVars, cfg, provisioned, startPc, startErr,
                 loopIdx, listeners, groupErr, inflight, handled, stopPc,
                 stopIdx, stopErr>>

\* a group that keeps the error returned last
LastError(e, err) == err

\* the number of tasks that have returned an error
Failures(ts) == Cardinality({f \in 1..Len(ts) : ts[f].err # NilErr})

\* errgroup.Group: the first non-nil error a task returns is kept
FirstError(e, err) == IF e = NilErr THEN err ELSE e

\* s.Serve(l) returns nil once the instance's transport server was shut down
TaskReturn(k) ==
  /\ tasks[k].state = "serving"
  /\ transport[tasks[k].srv].shut
  /\ tasks' = [tasks EXCEPT ![k].state = "returned"]
  /\ UNCHANGED <<pathVars, servers, xferVars, cfg, provisioned, startPc, startErr,
                 loopIdx, listeners, groupErr, transport, inflight, handled,
                 stopPc, stopIdx, stopErr>>

\* a group that shuts every instance down when one of its tasks fails
TaskFailCancels(k) ==
  /\ tasks[k].state = "serving"
  /\ tasks' = [tasks EXCEPT ![k].state = "returned", ![k].err = [task |-> k],
                            ![k].rank = Failures(tasks) + 1]
  /\ groupErr' = FirstError(groupErr, [task |-> k])
  /\ transport' = [j \in 1..Len(transport) |-> [transport[j] EXCEPT !.shut = TRUE]]
  /\ UNCHANGED <<pathVars, servers, xferVars, cfg, provisioned, startPc, startErr,
                 loopIdx, listeners, inflight, handled, stopPc, stopIdx, stopErr>>

\* s.Serve(l) returns an error, line 125: the task ends with it; rank
\* remembers how many tasks had failed before it, this one counted
TaskFail(k) ==
  /\ tasks[k].state = "serving"
  /\ tasks' = [tasks EXCEPT ![k].state = "returned", ![k].err = [task |-> k],
                            ![k].rank = Failures(tasks) + 1]
  /\ groupErr' = FirstError(groupErr, [task |-> k])
  /\ UNCHANGED <<pathVars, servers, xferVars, cfg, provisioned, startPc, startErr,
                 loopIdx, listeners, transport, inflight, handled, stopPc,
                 stopIdx, stopErr>>

\* a request arrives on the listener task k serves: the transport server the
\* task runs accepts it and calls that instance's handler. handled records
\* the listener's instance, the instance whose handler ran, its root, and
\* the tasks that had failed by then
Accept(k) ==
  /\ tasks[k].state = "serving"
  /\ ~transport[tasks[k].srv].shut
  /\ Len(handled) < MaxAccepted
  /\ handled' = Append(handled,
       [owner |-> listeners[tasks[k].ln].owner, srv |-> tasks[k].srv,
        root |-> servers[tasks[k].srv].root,
        failed |-> {f \in 1..Len(tasks) : tasks[f].err # NilErr}])
  /\ inflight' = [inflight EXCEPT ![tasks[k].srv] = @ + 1]
  /\ UNCHANGED <<pathVars, servers, xferVars, cfg, provisioned, startPc, startErr,
                 loopIdx, listeners, tasks, groupErr, transport, stopPc,
                 stopIdx, stopErr>>

\* a transfer of instance j concludes: its handler has returned
Conclude(j) ==
  /\ inflight[j] > 0
  /\ inflight' = [inflight EXCEPT ![j] = @ - 1]
  /\ UNCHANGED <<pathVars, servers, xferVars, cfg, provisioned, startPc, startErr,
                 loopIdx, listeners, tasks, groupErr, transport, handled,
                 stopPc, stopIdx, stopErr>>

\* TFTP.Stop: the host calls Stop after Start has returned
StopCall ==
  /\ startPc = "returned" /\ stopPc = "idle"
  /\ stopPc' = "loop"
  /\ UNCHANGED <<pathVars, servers, xferVars, cfg, provisioned, startPc, startErr,
                 loopIdx, listeners, tasks, groupErr, transport, inflight,
                 handled, stopIdx, stopErr>>

\* s.Shutdown(), line 134, its request: the transport server is told to stop
\* accepting. For a server no Serve call has reached yet the transport
\* contract states no outcome: the request is kept for the Serve call to
\* come, or the call fails and Stop with it
StopShutdown ==
  /\ stopPc = "loop" /\ stopIdx < Len(servers)
  /\ \/ /\ transport' = [transport EXCEPT ![stopIdx + 1].shut = TRUE]
        /\ stopPc' = "await"
     \/ /\ transport[stopIdx + 1].conn = 0
        /\ stopPc' = "failed"
        /\ UNCHANGED transport
  /\ UNCHANGED <<pathVars, servers, xferVars, cfg, provisioned, startPc, startErr,
                 loopIdx, listeners, tasks, groupErr, inflight, handled,
                 stopIdx, stopErr>>

\* s.Shutdown() returns when the instance's transfers in flight have
\* concluded; "server stopped" is logged, lines 135-140
StopShutdownDone ==
  /\ stopPc = "await"
  /\ inflight[stopIdx + 1] = 0
  /\ stopIdx' = stopIdx + 1
  /\ stopPc' = "loop"
  /\ UNCHANGED <<pathVars, servers, xferVars, cfg, provisioned, startPc, startErr,
                 loopIdx, listeners, tasks, groupErr, transport, inflight,
                 handled, stopErr>>

\* errgroup.Group.Wait: every task launched with Go has returned
WaitDone(ts) == \A k \in 1..Len(ts) : ts[k].state = "returned"

\* return app.errGroup.Wait(), line 142
StopWait ==
  /\ stopPc = "loop" /\ stopIdx = Len(servers)
  /\ WaitDone(tasks)
  /\ stopPc' = "returned"
  /\ stopErr' = groupErr
  /\ UNCHANGED <<pathVars, servers, xferVars, cfg, provisioned, startPc, startErr,
                 loopIdx, listeners, tasks, groupErr, transport, inflight,
                 handled, stopIdx>>

LifeNext ==
  \/ Provision
  \/ StartCall
  \/ StartIter
  \/ StartReturn
  \/ \E k \in 1..Len(tasks) : TaskServe(k)
  \/ \E k \in 1..Len(tasks) : TaskReturn(k)
  \/ \E k \in 1..Len(tasks) : TaskFail(k)
  \/ \E k \in 1..Len(tasks) : Accept(k)
  \/ \E j \in 1..Len(servers) : Conclude(j)
  \/ StopCall
  \/ StopShutdown
  \/ StopShutdownDone
  \/ StopWait

SpecLife == LifeInit /\ [][LifeNext]_vars

\* ------------------------------------------------------------ properties of the supervisor
StartSucceeded == startPc = "returned" /\ startErr = "nil"

AddressesDistinct ==
  \A i, j \in 1..Len(servers) :
    i # j => ListenPort(servers[i].addr) # ListenPort(servers[j].addr)

C4_TaskServesOwnInstance ==
  (StartSucceeded /\ AddressesDistinct) =>
    /\ Len(tasks) = Len(servers)
    /\ \A i \in 1..Len(servers) : \E k \in 1..Len(tasks) : tasks[k].iter = i
    /\ \A k \in 1..Len(tasks) :
         tasks[k].state # "launched" => tasks[k].srv = listeners[tasks[k].ln].owner
    /\ \A h \in 1..Len(handled) :
         handled[h].root = servers[handled[h].owner].root

\* C5: after a successful Provision the listener addresses of the instances
\* are pairwise distinct.
C5_DistinctAddresses ==
  provisioned = "ok" =>
    \A i, j \in 1..Len(servers) :
      i # j => ListenPort(servers[i].addr) # ListenPort(servers[j].addr)

\* the ports the configuration asks for, by server name
ConfiguredPorts ==
  {<<name, port>> \in (DOMAIN cfg) \X (DefaultPort..71) :
     LET r == ParseNetworkAddressWithDefaults(cfg[name].listen)
     IN ~r.err /\ port \in r.addr.StartPort..r.addr.EndPort}

\* no port is configured for two servers
PortsDisjoint ==
  \A np, mq \in ConfiguredPorts : np[2] = mq[2] => np[1] = mq[1]

\* C6: when the configured ports (ranges included) are disjoint, after a
\* successful Provision there is one instance per configured port, and after
\* a successful Start every configured port has exactly one bound listener.
C6_OneInstancePerPort ==
  PortsDisjoint =>
    /\ provisioned = "ok" => Len(servers) = Cardinality(ConfiguredPorts)
    /\ StartSucceeded =>
         \A np \in ConfiguredPorts :
           Cardinality({l \in 1..Len(listeners) : listeners[l].port = np[2]}) = 1

\* C12: until Start is called (Provision has succeeded, failed or not run)
\* no listener is bound, no task is launched and no request is handled; and
\* every request was handled by an instance whose own listener Start has
\* bound and for which a task has entered the serve loop.
C12_HandlersAfterBind ==
  /\ startPc = "idle" => (listeners = <<>> /\ tasks = <<>> /\ handled = <<>>)
  /\ \A h \in 1..Len(handled) :
       /\ \E l \in 1..Len(listeners) : listeners[l].owner = handled[h].srv
       /\ \E k \in 1..Len(tasks) :
            tasks[k].state # "launched" /\ tasks[k].srv = handled[h].srv

\* task k has returned with an error
Failed(k) == tasks[k].state = "returned" /\ tasks[k].err # NilErr

\* C13: the step in which a serving task returns with an error changes no
\* other task, no transport server, no listener, no transfer in flight and
\* nothing of Stop; and until Stop is invoked no instance is shut down, no
\* error has surfaced, and every task that serves can accept a request.
C13_FailureIndependent ==
  /\ [][\A k \in 1..Len(tasks) :
          (tasks[k].state = "serving" /\ tasks'[k].state = "returned"
           /\ tasks'[k].err # NilErr)
          => /\ \A j \in 1..Len(tasks) : j # k => tasks'[j] = tasks[j]
             /\ transport' = transport /\ listeners' = listeners
             /\ inflight' = inflight /\ handled' = handled
             /\ stopPc' = stopPc /\ stopIdx' = stopIdx /\ stopErr' = stopErr]_vars
  /\ [](stopPc = "idle" =>
          /\ stopErr = NilErr
          /\ \A j \in 1..Len(transport) : ~transport[j].shut
          /\ \A k \in 1..Len(tasks) :
               (tasks[k].state = "serving" /\ Len(handled) < MaxAccepted)
               => ENABLED Accept(k))

\* C13 witness: before Stop is invoked one task has returned with an error,
\* and a task serving another instance has accepted a request since.
C13_Witness ==
  \E k, j \in 1..Len(tasks) :
    /\ stopPc = "idle" /\ Failed(k)
    /\ tasks[j].state = "serving" /\ tasks[j].srv # tasks[k].srv
    /\ \E h \in 1..Len(handled) :
         handled[h].srv = tasks[j].srv /\ k \in handled[h].failed

\* C14: when Stop has returned, its result is nil exactly when no launched
\* task returned an error, and otherwise it is the error of the task that
\* was the first to return one.
C14_StopResultFirstError ==
  stopPc = "returned" =>
    /\ stopErr = NilErr <=> \A k \in 1..Len(tasks) : tasks[k].err = NilErr
    /\ stopErr # NilErr =>
         /\ stopErr.task \in 1..Len(tasks)
         /\ tasks[stopErr.task].err = stopErr
         /\ tasks[stopErr.task].rank = 1

\* C14 witness: Stop has returned the error of the task launched second,
\* which failed first; the task launched first failed after it.
C14_Witness ==
  /\ stopPc = "returned" /\ Len(tasks) = 2
  /\ tasks[2].rank = 1 /\ tasks[1].rank = 2
  /\ stopErr = tasks[2].err

\* C15: when Listen failed or gave a listener that is not packet-oriented
\* for the instance the loop had reached, Start has returned the error, every
\* task was launched in an earlier iteration, no listener was bound for that
\* instance or a later one, and from then on Start binds and launches
\* nothing more.
C15_StartFailsAtFirstError ==
  /\ [](startErr # "nil" =>
          /\ startPc = "returned"
          /\ Len(tasks) = loopIdx - 1
          /\ \A k \in 1..Len(tasks) : tasks[k].iter < loopIdx
          /\ \A l \in 1..Len(listeners) : listeners[l].owner < loopIdx)
  /\ [][startPc = "returned" =>
          /\ startPc' = startPc /\ startErr' = startErr /\ loopIdx' = loopIdx
          /\ listeners' = listeners /\ Len(tasks') = Len(tasks)]_vars

\* C15 witness: Start has failed on the first of two instances.
C15_Witness ==
  /\ startPc = "returned" /\ startErr \in {"listen", "notpacket"}
  /\ loopIdx = 1 /\ Len(servers) = 2 /\ tasks = <<>>

\* C19: the step in which Start returns an error changes no task, no
\* listener and no transport server; and after it, as long as Stop has not
\* been invoked, no instance is shut down and every task launched before the
\* failure, with its listener bound, is launched or serving unless its own
\* Serve call returned an error.
C19_FailedStartLeavesTasks ==
  /\ [][(startPc = "loop" /\ startPc' = "returned" /\ startErr' # "nil") =>
          /\ tasks' = tasks /\ listeners' = listeners
          /\ transport' = transport /\ inflight' = inflight]_vars
  /\ [](startErr # "nil" =>
          \A k \in 1..Len(tasks) :
            /\ tasks[k].iter < loopIdx
            /\ tasks[k].ln \in 1..Len(listeners)
            /\ listeners[tasks[k].ln].owner = tasks[k].iter
            /\ stopPc = "idle" =>
                 /\ \A j \in 1..Len(transport) : ~transport[j].shut
                 /\ tasks[k].err = NilErr =>
                      tasks[k].state \in {"launched", "serving"})

\* C19 witness: Listen failed for the second instance and Start has
\* returned the error; the task of the first instance serves it and has
\* accepted a request, and Stop has not been invoked.
C19_Witness ==
  /\ startPc = "returned" /\ startErr = "listen" /\ loopIdx = 2
  /\ stopPc = "idle"
  /\ Len(tasks) = 1 /\ tasks[1].state = "serving" /\ tasks[1].srv = 1
  /\ \E h \in 1..Len(handled) : handled[h].srv = 1

\* ------------------------------------------------------------ properties of the handlers
\* p lies in the directory tree of root: root itself or a descendant of it
\* on a path-segment boundary
InTree(root, p) ==
  \/ p = root
  \/ HasPrefix(p, IF root = <<"/">> THEN root ELSE root \o <<"/">>)

Done(i) == xfers[i].pc = "done"

AccessRecords(i) ==
  {k \in DOMAIN xfers[i].events : xfers[i].events[k].log = "access"}

LogsEnabled(i) == XferConfig[servers[xfers[i].srv].name].logs

\* C1: no handler opens or creates a file outside the directory tree of its
\* instance's root, whatever sequence of transfers has run.
C1_NoFileOutsideRoot ==
  \A i \in 1..Len(xfers) : \A k \in DOMAIN xfers[i].events :
    xfers[i].events[k].log \in {"open", "create"}
      => InTree(servers[xfers[i].srv].root, xfers[i].events[k].path)

\* C2: a write whose resolved path already holds a file returns
\* already-exists in the step that tries to create it and leaves every file
\* as it was; and once an upload has succeeded, the file holds exactly that
\* upload's bytes from then on, every other finished write to the same path
\* having failed with already-exists.
C2_ExclusiveCreate ==
  /\ [][\A i \in 1..Len(xfers) :
          (/\ xfers[i].pc = "open" /\ xfers[i].kind = "write"
           /\ xfers[i].p \in DOMAIN files
           /\ xfers'[i].pc # "open")
          => (/\ xfers'[i].pc = "done" /\ xfers'[i].err = "EEXIST"
              /\ files' = files)]_vars
  /\ [](\A i \in 1..Len(xfers) :
          (xfers[i].kind = "write" /\ Done(i) /\ xfers[i].err = "nil")
          => /\ files[xfers[i].p] = xfers[i].data
             /\ \A j \in 1..Len(xfers) :
                  (j # i /\ xfers[j].kind = "write" /\ Done(j)
                   /\ xfers[j].p = xfers[i].p)
                  => xfers[j].err = "EEXIST")

\* C2 witness: an upload of at least one byte succeeded, a later upload of
\* the same filename to the same instance failed with already-exists, and the
\* file still holds the first upload.
C2_Witness ==
  \E i, j \in 1..Len(xfers) :
    /\ i \in xfers[j].prior
    /\ xfers[i].kind = "write" /\ xfers[j].kind = "write"
    /\ xfers[i].srv = xfers[j].srv /\ xfers[i].filename = xfers[j].filename
    /\ xfers[i].err = "nil" /\ Len(xfers[i].data) > 0 /\ Len(xfers[j].data) > 0
    /\ Done(j) /\ xfers[j].err = "EEXIST"
    /\ files[xfers[i].p] = xfers[i].data

\* C7: a handler of an instance configured with logs disabled emits no
\* access-log record.
C7_NoAccessLogWhenDisabled ==
  \A i \in 1..Len(xfers) : ~LogsEnabled(i) => AccessRecords(i) = {}

\* C8: on an instance with access logging enabled, a handler that has
\* returned has emitted exactly one access-log record, as its last log entry
\* (after the open or create and after the error entry, right before the
\* return), with method GET for a read and PUT for a write, the raw filename
\* as uri and the number of bytes streamed (0 when it failed before
\* streaming); a handler that has not returned has emitted none.
C8_OneAccessRecord ==
  \A i \in 1..Len(xfers) : LogsEnabled(i) =>
    LET t == xfers[i]
        last == Len(t.events) - 1
    IN IF ~Done(i) THEN AccessRecords(i) = {}
       ELSE /\ AccessRecords(i) = {last}
            /\ t.events[Len(t.events)] = [log |-> "return", err |-> t.err]
            /\ t.events[last].method = (IF t.kind = "read" THEN "GET" ELSE "PUT")
            /\ t.events[last].uri = t.filename
            /\ t.events[last].bytes = t.moved
            /\ t.kind = "read" => t.events[last].bytes = Len(t.sent)
            /\ t.err \in {"unsafe", "ENOENT", "EEXIST"} => t.events[last].bytes = 0

\* C8 witness: on the logging instance an upload has failed in mid-stream
\* after one byte and a download was rejected by the sanitizer; each has
\* emitted its record.
C8_Witness ==
  \E i, j \in 1..Len(xfers) :
    /\ LogsEnabled(i) /\ LogsEnabled(j) /\ Done(i) /\ Done(j)
    /\ xfers[i].kind = "write" /\ xfers[i].err = "io" /\ xfers[i].moved = 1
    /\ xfers[j].kind = "read" /\ xfers[j].err = "unsafe"
    /\ AccessRecords(i) # {} /\ AccessRecords(j) # {}

\* C9: when an upload of N bytes under filename F has succeeded and a
\* download of F from the same instance is invoked afterwards, the download
\* finds the file (it can fail only in mid-stream), and when it returns
\* without error it has delivered exactly the uploaded bytes, and the
\* upload's and the download's byte counts are both N.
C9_RoundTrip ==
  \A i, j \in 1..Len(xfers) :
    (/\ xfers[i].kind = "write" /\ xfers[j].kind = "read"
     /\ xfers[i].srv = xfers[j].srv /\ xfers[i].filename = xfers[j].filename
     /\ xfers[i].err = "nil" /\ i \in xfers[j].prior /\ Done(j))
    => /\ xfers[j].err \in {"nil", "io"}
       /\ xfers[i].n = Len(xfers[i].data)
       /\ xfers[j].err = "nil" =>
            /\ xfers[j].sent = xfers[i].data
            /\ xfers[j].n = Len(xfers[i].data)

\* C9 witness: two bytes were uploaded and then downloaded again.
C9_Witness ==
  \E i, j \in 1..Len(xfers) :
    /\ xfers[i].kind = "write" /\ xfers[j].kind = "read"
    /\ xfers[i].srv = xfers[j].srv /\ xfers[i].filename = xfers[j].filename
    /\ xfers[i].err = "nil" /\ i \in xfers[j].prior /\ Done(j)
    /\ xfers[j].err = "nil" /\ Len(xfers[j].sent) = 2

\* ------------------------------------------------------------ properties of safePath
\* the canonical absolute form of join(root, filename)
Canonical(root, filename) == Abs(Join(root, filename), Getwd)

\* C10: safePath accepts exactly when canonicalization succeeded and every
\* character of the root is the character at the same place of the
\* canonical path; it then returns the canonical path, and otherwise an error.
C10_AcceptsIffStringPrefix ==
  spResult.called =>
    LET c == Canonical(spRoot, spName)
        prefixed == /\ Len(c.path) >= Len(spRoot)
                    /\ \A k \in 1..Len(spRoot) : c.path[k] = spRoot[k]
    IN /\ ~spResult.err <=> (~c.err /\ prefixed)
       /\ ~spResult.err => spResult.path = c.path

\* C10 witness: a filename was accepted whose canonical path begins with the
\* root's characters but lies outside the root's directory tree.
C10_Witness ==
  /\ spResult.called /\ ~spResult.err
  /\ ~InTree(spRoot, spResult.path)

\* the filename has no ".." element between its separators
NoDotDot(filename) ==
  \A k \in 1..Len(Split(filename)) : Split(filename)[k] # DotDot

\* C11: for every root and every filename without a ".." element, a leading
\* separator included, safePath succeeds and the path it returns is the root
\* or lies below it on a path-segment boundary.
C11_NoDotDotAccepted ==
  (spResult.called /\ NoDotDot(spName)) =>
    /\ ~spResult.err
    /\ InTree(spRoot, spResult.path)

\* C11 witness: a filename that begins with a separator, names an element
\* and has no ".." was accepted under a root other than /.
C11_Witness ==
  /\ spResult.called /\ ~spResult.err
  /\ spRoot # <<"/">>
  /\ IsAbs(spName) /\ NoDotDot(spName)
  /\ spResult.path # spRoot

\* ------------------------------------------------------------ concurrent uploads
\* write i has created its file: it streams, or has returned after streaming
Created(i) ==
  /\ xfers[i].kind = "write"
  /\ \/ xfers[i].pc = "stream"
     \/ Done(i) /\ xfers[i].err \in {"nil", "io"}

\* writes i and j overlapped: neither had returned when the other was invoked
Concurrent(i, j) ==
  i # j /\ i \notin xfers[j].prior /\ j \notin xfers[i].prior

\* C16: of the write transfers that overlap on one resolved path where no
\* file was before, at most one has created the file; the file holds the
\* bytes that one has streamed and nothing else; and every other one that
\* has returned failed with already-exists having written no byte.
C16_OneConcurrentCreator ==
  \A i, j \in 1..Len(xfers) :
    (/\ Concurrent(i, j)
     /\ xfers[i].kind = "write" /\ xfers[j].kind = "write"
     /\ xfers[i].err # "unsafe" /\ xfers[j].err # "unsafe"
     /\ xfers[i].p = xfers[j].p /\ xfers[i].p # BootFile)
    => /\ ~(Created(i) /\ Created(j))
       /\ Created(i) =>
            /\ files[xfers[i].p] = SubSeq(xfers[i].data, 1, xfers[i].moved)
            /\ Done(j) => (xfers[j].err = "EEXIST" /\ xfers[j].moved = 0)

\* C16 witness: of two overlapping uploads of one filename the one invoked
\* later created the file and stored its two bytes, and the one invoked
\* first failed with already-exists.
C16_Witness ==
  \E i, j \in 1..Len(xfers) :
    /\ i < j /\ Concurrent(i, j)
    /\ xfers[i].kind = "write" /\ xfers[j].kind = "write"
    /\ xfers[i].srv = xfers[j].srv /\ xfers[i].p = xfers[j].p
    /\ Done(j) /\ xfers[j].err = "nil" /\ xfers[j].moved = 2
    /\ Done(i) /\ xfers[i].err = "EEXIST" /\ Len(xfers[i].data) > 0
    /\ files[xfers[j].p] = xfers[j].data

\* ------------------------------------------------------------ order of path resolution and file I/O
\* safePath rejects the filename of invocation i
Rejected(i) == SafePath(servers[xfers[i].srv].root, xfers[i].filename).err

\* the filesystem calls invocation i has made
FsCalls(i) ==
  {k \in DOMAIN xfers[i].events : xfers[i].events[k].log \in {"open", "create"}}

\* C17: the first thing every invocation has done is evaluate safePath, and
\* its open or create comes after it; an invocation whose filename safePath
\* rejects has returned the rejection with no open, no create and no byte
\* moved; and every step that changes the filesystem is a step of a write
\* transfer whose filename was accepted.
C17_SafePathBeforeFileIO ==
  /\ [](\A i \in 1..Len(xfers) :
          /\ xfers[i].events[1].log = "safePath"
          /\ \A k \in FsCalls(i) : k > 1
          /\ Rejected(i) =>
               /\ Done(i) /\ xfers[i].err = "unsafe"
               /\ FsCalls(i) = {}
               /\ xfers[i].moved = 0 /\ xfers[i].sent = <<>>)
  /\ [][files' # files =>
          /\ Len(xfers') = Len(xfers)
          /\ \E i \in 1..Len(xfers) :
               /\ xfers[i].kind = "write" /\ ~Rejected(i)
               /\ xfers'[i] # xfers[i]
               /\ \A j \in 1..Len(xfers) : j # i => xfers'[j] = xfers[j]]_vars

\* C17 witness: an upload of two bytes and a download were both rejected by
\* safePath and have returned, and the filesystem is as it was at the start.
C17_Witness ==
  /\ \E i \in 1..Len(xfers) :
       xfers[i].kind = "write" /\ Rejected(i) /\ Done(i) /\ Len(xfers[i].data) = 2
  /\ \E j \in 1..Len(xfers) :
       xfers[j].kind = "read" /\ Rejected(j) /\ Done(j)
  /\ files = [q \in {BootFile} |-> <<1, 2>>]

\* ------------------------------------------------------------ error logging
ErrorRecords(i) ==
  {k \in DOMAIN xfers[i].events : xfers[i].events[k].log = "error"}

\* C18: a handler that has returned returned an error exactly when safePath
\* rejected the filename ("unsafe"), the open or create failed (ENOENT,
\* EEXIST) or the stream failed ("io"); it then has emitted exactly one error
\* entry, with that error and the client's filename, before its return; a
\* handler that returned nil, which it does only after the open or create
\* succeeded and the stream ended, has emitted none, and neither has a
\* handler that has not returned. The step that leaves the open or create
\* returns an error exactly when the file is missing (read) or exists
\* (write).
C18_ErrorLoggedOnce ==
  /\ [](\A i \in 1..Len(xfers) :
          LET t == xfers[i]
          IN /\ ~Done(i) => (t.err = "nil" /\ ErrorRecords(i) = {})
             /\ Done(i) =>
                  /\ t.err \in {"nil", "unsafe", "ENOENT", "EEXIST", "io"}
                  /\ t.err = "unsafe" <=> Rejected(i)
                  /\ t.err \in {"ENOENT", "EEXIST"} =>
                       (FsCalls(i) # {} /\ t.moved = 0)
                  /\ t.events[Len(t.events)] = [log |-> "return", err |-> t.err]
                  /\ t.err = "nil" =>
                       /\ ErrorRecords(i) = {}
                       /\ FsCalls(i) # {}
                       /\ t.kind = "write" => t.moved = Len(t.data)
                  /\ t.err # "nil" =>
                       /\ Cardinality(ErrorRecords(i)) = 1
                       /\ \A k \in ErrorRecords(i) :
                            /\ k < Len(t.events)
                            /\ t.events[k].msg = t.err
                            /\ t.events[k].filename = t.filename)
  /\ [][\A i \in 1..Len(xfers) :
          (xfers[i].pc = "open" /\ xfers'[i].pc # "open") =>
            LET fails == IF xfers[i].kind = "read"
                           THEN xfers[i].p \notin DOMAIN files
                           ELSE xfers[i].p \in DOMAIN files
            IN /\ xfers'[i].err # "nil" <=> fails
               /\ fails <=> xfers'[i].pc = "done"]_vars

\* C18 witness: a download has failed at its open (no such file) and an
\* upload has failed in mid-stream; each has logged its error.
C18_Witness ==
  \E i, j \in 1..Len(xfers) :
    /\ Done(i) /\ xfers[i].kind = "read" /\ xfers[i].err = "ENOENT"
    /\ Done(j) /\ xfers[j].kind = "write" /\ xfers[j].err = "io"
    /\ ErrorRecords(i) # {} /\ ErrorRecords(j) # {}

\* ------------------------------------------------------------ partial uploads
\* upload i has failed in mid-stream and invocation j, of the same filename
\* on the same instance, was invoked after i had returned
AfterFailedUpload(i, j) ==
  /\ xfers[i].kind = "write" /\ Done(i) /\ xfers[i].err = "io"
  /\ i \in xfers[j].prior
  /\ xfers[j].srv = xfers[i].srv /\ xfers[j].filename = xfers[i].filename

\* C20: an upload whose stream has failed has returned the error and its
\* file stays, holding the bytes streamed before the failure; a write of the
\* same filename invoked later returns already-exists; a read of it invoked
\* later finds the file (it can fail only in its own stream) and, when it
\* returns nil, has served exactly the partial content.
C20_PartialFileStays ==
  \A i \in 1..Len(xfers) :
    (xfers[i].kind = "write" /\ Done(i) /\ xfers[i].err = "io") =>
      LET partial == SubSeq(xfers[i].data, 1, xfers[i].moved)
      IN /\ xfers[i].events[Len(xfers[i].events)] = [log |-> "return", err |-> "io"]
         /\ xfers[i].p \in DOMAIN files
         /\ files[xfers[i].p] = partial
         /\ \A j \in 1..Len(xfers) : (AfterFailedUpload(i, j) /\ Done(j)) =>
              /\ xfers[j].kind = "write" => xfers[j].err = "EEXIST"
              /\ xfers[j].kind = "read" =>
                   /\ xfers[j].err \in {"nil", "io"}
                   /\ xfers[j].err = "nil" =>
                        (xfers[j].sent = partial /\ xfers[j].n = Len(partial))

\* C20 witness: an upload of two bytes failed after its first byte, and a
\* download of the same filename invoked afterwards has served that byte.
C20_Witness ==
  \E i, j \in 1..Len(xfers) :
    /\ AfterFailedUpload(i, j)
    /\ Len(xfers[i].data) = 2 /\ xfers[i].moved = 1
    /\ xfers[j].kind = "read" /\ Done(j) /\ xfers[j].err = "nil"
    /\ xfers[j].sent = <<xfers[i].data[1]>>

=============================================================================
